---- MODULE Spec2Model ----
(***************************************************************************)
(* Model of buildbot/validation_pool.py: the tree gate (_IsTreeOpen), the  *)
(* acquisition of a ValidationPool, and the apply / submit / failure       *)
(* handling operations of the pool.                                        *)
(*                                                                         *)
(* A blocking call of _IsTreeOpen is modelled one loop iteration at a      *)
(* time (each iteration performs one HTTP request); while it runs the      *)
(* calling operation is suspended (pc) and no other operation can start.   *)
(* Every other operation is one atomic action.                             *)
(***************************************************************************)
EXTENDS Integers, Sequences, FiniteSets, TLC

\* Number of distinct Change objects the review system can hand out.
NumChanges == 3

Changes == 1..NumChanges

\* A loop bound that allows one attempt too many.
max_attempts_OneMore == 5 + 1

\* validation_pool.py:65
max_attempts == 5

\* validation_pool.py:68
initial_sleep == 1

\* What one urllib.urlopen(status_url) can produce:
\*   IOError     the request raises IOError
\*   non200      a response whose getcode() is not 200
\*   malformed   status 200, body is not JSON (json.load raises ValueError)
\*   nokey       status 200, a JSON object without 'general_state'
\*   any other   status 200, a JSON object whose general_state is that value
FailedResponses == {"IOError", "non200"}
TreeStates == {"open", "throttled", "closed", "maintenance"}
Responses == FailedResponses \cup TreeStates \cup {"malformed", "nokey"}

VARIABLES
  GLOBAL_DRYRUN,  \* ValidationPool.GLOBAL_DRYRUN
  dryrun_passed,  \* the dryrun argument of the last AcquirePool call
  pool,           \* TRUE when the caller holds a ValidationPool object
  changes,        \* pool.changes
  gerrit_helper,  \* pool.gerrit_helper: "None" or "GerritHelper"
  dryrun,         \* pool.dryrun
  pc,             \* "idle", "IsTreeOpen" (inside the loop), "returned"
  caller,         \* the operation that called _IsTreeOpen
  attempt,        \* _IsTreeOpen: loop variable
  current_sleep,  \* _IsTreeOpen: current_sleep
  response_dict,  \* _IsTreeOpen: response_dict ("None" before it is set)
  responses,      \* what each urlopen of this _IsTreeOpen call produced
  sleeps,         \* the durations passed to time.sleep in this call
  tree_open,      \* outcome of the current operation's _IsTreeOpen call
  warnings,       \* logging.warn records of the current operation
  lastOp,         \* the operation called last
  result,         \* its return value or the exception it raised
  calls,          \* calls the current operation made on Change objects
  source_calls,   \* calls the current operation made on the gerrit helper
  apply_failed    \* changes removed from this pool after an apply failure

vars == <<GLOBAL_DRYRUN, dryrun_passed, pool, changes, gerrit_helper, dryrun,
          pc, caller,
          attempt, current_sleep, response_dict, responses, sleeps, tree_open,
          warnings, lastOp, result, calls, source_calls, apply_failed>>

processVars == <<GLOBAL_DRYRUN, dryrun_passed>>
poolVars == <<pool, changes, gerrit_helper, dryrun, apply_failed>>
gateVars == <<attempt, current_sleep, response_dict, responses, sleeps>>

----------------------------------------------------------------------------
\* Helpers

Range(s) == {s[i] : i \in DOMAIN s}

\* All orders in which the elements of S can be listed.
Perms(S) ==
  {f \in [1..Cardinality(S) -> S] : \A i, j \in DOMAIN f : i # j => f[i] # f[j]}

\* All lists of distinct changes.
ChangeLists == UNION {Perms(S) : S \in SUBSET Changes}

BoolStr(b) == IF b THEN "True" ELSE "False"

\* One call on a Change object: the method, the change, the dryrun keyword
\* argument ("n/a" where the method takes none) and the exception it raised.
Call(name, change, dry, raised) ==
  [call |-> name, change |-> change, dryrun |-> dry, raised |-> raised]

\* Number of calls of the method on the change in a call log.
Count(log, name, change) ==
  Cardinality({i \in DOMAIN log : log[i].call = name /\ log[i].change = change})

----------------------------------------------------------------------------
\* ValidationPool.__init__ (the dryrun attribute)

\* A constructor that ignores the class-wide switch.
InitDryrun_ArgumentOnly(arg, global) == arg

InitDryrun(arg, global) == arg \/ global

----------------------------------------------------------------------------
\* ValidationPool._IsTreeOpen

\* A backoff that grows by a constant instead of doubling.
SleepWithLinearBackOff(sleep) == sleep + 1

SleepWithExponentialBackOff(sleep) == sleep * 2

\* A verdict that forgets the throttled state.
TreeOpenVerdict_OpenOnly(general_state) == general_state = "open"

TreeOpenVerdict(general_state) == general_state \in {"open", "throttled"}

\* The warning after the loop, for a loop left by break.
AttemptWarning(n) ==
  IF n > 1 THEN <<[msg |-> "Had to attempt to reach", times |-> n]>> ELSE <<>>

ExhaustedWarning == <<[msg |-> "Could not get a status", times |-> 0]>>

\* A gate that fails closed when the status page cannot be read.
LoopElse_FailClosed == "False"

\* The value _IsTreeOpen returns from the else clause of the loop.
LoopElse == "True"

\* The value _IsTreeOpen produces once the loop was left by break.
AfterBreak(body) ==
  IF body = "nokey" THEN "KeyError" ELSE BoolStr(TreeOpenVerdict(body))

\* Entering _IsTreeOpen from the named operation.
EnterIsTreeOpen(op) ==
  /\ pc' = "IsTreeOpen"
  /\ caller' = op
  /\ attempt' = 0
  /\ current_sleep' = initial_sleep
  /\ response_dict' = "None"
  /\ responses' = <<>>
  /\ sleeps' = <<>>
  /\ tree_open' = "pending"
  /\ warnings' = <<>>
  /\ lastOp' = op
  /\ result' = "pending"
  /\ calls' = <<>>
  /\ source_calls' = <<>>

\* One iteration of the for loop, and what follows the loop when this
\* iteration is the one that leaves it.
IsTreeOpen_Attempt ==
  /\ pc = "IsTreeOpen"
  /\ \E response \in Responses :
       /\ responses' = Append(responses, response)
       /\ IF response \in FailedResponses
          THEN /\ sleeps' = Append(sleeps, current_sleep)
               /\ current_sleep' = SleepWithExponentialBackOff(current_sleep)
               /\ response_dict' = response_dict
               /\ IF attempt + 1 < max_attempts
                  THEN /\ attempt' = attempt + 1
                       /\ UNCHANGED <<pc, tree_open, warnings>>
                  ELSE /\ attempt' = attempt
                       /\ warnings' = warnings \o ExhaustedWarning
                       /\ tree_open' = LoopElse
                       /\ pc' = "returned"
          ELSE /\ UNCHANGED <<sleeps, current_sleep, attempt>>
               /\ pc' = "returned"
               /\ IF response = "malformed"
                  THEN /\ response_dict' = response_dict
                       /\ tree_open' = "ValueError"
                       /\ warnings' = warnings
                  ELSE /\ response_dict' = response
                       /\ warnings' = warnings \o AttemptWarning(attempt)
                       /\ tree_open' = AfterBreak(response)
  /\ UNCHANGED <<processVars, poolVars, caller, lastOp, result, calls,
                 source_calls>>

\* The locals of _IsTreeOpen are gone once its caller continues.
LeaveIsTreeOpen ==
  /\ pc' = "idle"
  /\ attempt' = 0
  /\ current_sleep' = initial_sleep
  /\ response_dict' = "None"
  /\ responses' = <<>>
  /\ sleeps' = <<>>

----------------------------------------------------------------------------
\* ValidationPool.AcquirePool

\* An AcquirePool that asks Gerrit for the changes before it looks at the
\* tree status.
AcquirePool_FetchFirst(gate, raw, filtered, dryrun_arg, global) ==
  LET fetched ==
        <<[call |-> "GrabChangesReadyForCommit", arg |-> <<>>,
           returned |-> raw],
          [call |-> "FilterProjectsNotInSourceTree", arg |-> raw,
           returned |-> filtered]>>
  IN IF gate = "True"
     THEN [result |-> "pool", pool |-> TRUE, changes |-> filtered,
           gerrit_helper |-> "GerritHelper",
           dryrun |-> InitDryrun(dryrun_arg, global),
           source_calls |-> fetched]
     ELSE [result |-> IF gate = "False" THEN "TreeIsClosedException" ELSE gate,
           pool |-> FALSE, changes |-> <<>>, gerrit_helper |-> "None",
           dryrun |-> FALSE, source_calls |-> fetched]

\* What AcquirePool does once _IsTreeOpen has produced `gate`: raw is the
\* list GrabChangesReadyForCommit returns, filtered the list
\* FilterProjectsNotInSourceTree returns for it.
AcquirePool(gate, raw, filtered, dryrun_arg, global) ==
  IF gate = "True"
  THEN [result |-> "pool", pool |-> TRUE, changes |-> filtered,
        gerrit_helper |-> "GerritHelper",
        dryrun |-> InitDryrun(dryrun_arg, global),
        source_calls |->
          <<[call |-> "GrabChangesReadyForCommit", arg |-> <<>>,
             returned |-> raw],
            [call |-> "FilterProjectsNotInSourceTree", arg |-> raw,
             returned |-> filtered]>>]
  ELSE [result |-> IF gate = "False" THEN "TreeIsClosedException" ELSE gate,
        pool |-> FALSE, changes |-> <<>>, gerrit_helper |-> "None",
        dryrun |-> FALSE, source_calls |-> <<>>]

AcquirePool_Call ==
  /\ pc = "idle"
  /\ ~pool
  /\ dryrun_passed' \in BOOLEAN
  /\ EnterIsTreeOpen("AcquirePool")
  /\ UNCHANGED <<GLOBAL_DRYRUN, poolVars>>

AcquirePool_Return ==
  /\ pc = "returned"
  /\ caller = "AcquirePool"
  /\ \E raw \in ChangeLists, in_tree \in SUBSET Changes :
       LET filtered == SelectSeq(raw, LAMBDA c : c \in in_tree)
           r == AcquirePool(tree_open, raw, filtered, dryrun_passed,
                            GLOBAL_DRYRUN)
       IN /\ pool' = r.pool
          /\ changes' = r.changes
          /\ gerrit_helper' = r.gerrit_helper
          /\ dryrun' = r.dryrun
          /\ result' = r.result
          /\ source_calls' = r.source_calls
  /\ LeaveIsTreeOpen
  /\ UNCHANGED <<processVars, apply_failed, caller, tree_open, warnings,
                 lastOp, calls>>

----------------------------------------------------------------------------
\* ValidationPool.AcquirePoolFromManifest

\* ValidationPool() at line 130 omits the required dryrun argument of
\* __init__, so the call raises TypeError before anything else happens.
AcquirePoolFromManifest ==
  /\ pc = "idle"
  /\ ~pool
  /\ lastOp' = "AcquirePoolFromManifest"
  /\ result' = "TypeError"
  /\ calls' = <<>>
  /\ source_calls' = <<>>
  /\ warnings' = <<>>
  /\ tree_open' = "pending"
  /\ UNCHANGED <<processVars, poolVars, pc, caller, gateVars>>

----------------------------------------------------------------------------
\* ValidationPool.HandleApplicationFailure

\* A handler that stops after the first change it is given.
HandleApplicationFailure_FirstOnly(chs, dry) ==
  IF chs = <<>> THEN <<>>
  ELSE <<Call("HandleCouldNotApply", chs[1], BoolStr(dry), "none")>>

HandleApplicationFailure(chs, dry) ==
  [i \in 1..Len(chs) |->
     Call("HandleCouldNotApply", chs[i], BoolStr(dry), "none")]

\* HandleApplicationFailure called on the pool by its owner, with any
\* selection of the changes of the pool.
HandleApplicationFailure_Direct ==
  /\ pc = "idle"
  /\ pool
  /\ \E selected \in SUBSET Range(changes) :
       calls' = HandleApplicationFailure(
                  SelectSeq(changes, LAMBDA c : c \in selected), dryrun)
  /\ lastOp' = "HandleApplicationFailure"
  /\ result' = "None"
  /\ source_calls' = <<>>
  /\ warnings' = <<>>
  /\ tree_open' = "pending"
  /\ UNCHANGED <<processVars, poolVars, pc, caller, gateVars>>

----------------------------------------------------------------------------
\* ValidationPool.ApplyPoolIntoRepo

\* A loop that gives up at the first change that does not apply.
RECURSIVE ApplyLoop_StopAtFailure(_, _, _)
ApplyLoop_StopAtFailure(chs, outcomes, i) ==
  IF i > Len(chs) THEN <<>>
  ELSE IF outcomes[i] = "ApplyPatchException"
       THEN <<Call("Apply", chs[i], "n/a", "ApplyPatchException")>>
       ELSE <<Call("Apply", chs[i], "n/a", "none"),
              Call("PrintLink", chs[i], "n/a", "none")>>
            \o ApplyLoop_StopAtFailure(chs, outcomes, i + 1)

\* The for loop: outcomes[i] is what change.Apply does for the i-th change.
RECURSIVE ApplyLoop(_, _, _)
ApplyLoop(chs, outcomes, i) ==
  IF i > Len(chs) THEN <<>>
  ELSE (IF outcomes[i] = "ApplyPatchException"
        THEN <<Call("Apply", chs[i], "n/a", "ApplyPatchException")>>
        ELSE <<Call("Apply", chs[i], "n/a", "none"),
               Call("PrintLink", chs[i], "n/a", "none")>>)
       \o ApplyLoop(chs, outcomes, i + 1)

\* non_applied_changes after the loop.
RECURSIVE NonApplied(_, _, _)
NonApplied(chs, outcomes, i) ==
  IF i > Len(chs) THEN <<>>
  ELSE (IF outcomes[i] = "ApplyPatchException" THEN <<chs[i]>> ELSE <<>>)
       \o NonApplied(chs, outcomes, i + 1)

\* An ApplyPoolIntoRepo that forgets to take the failed changes out.
ChangesAfterApply_KeepAll(chs, non_applied) == {chs}

\* The lists self.changes can be after lines 159-162: the order of
\* list(set(...)) is whatever the set's iteration order is.
ChangesAfterApply(chs, non_applied) ==
  IF non_applied # <<>>
  THEN Perms(Range(chs) \ Range(non_applied))
  ELSE {chs}

\* A return value that reports success whatever is left in the pool.
ApplyResult_AlwaysTrue(chs) == "True"

\* The return value of ApplyPoolIntoRepo: chs is self.changes at line 164.
ApplyResult(chs) == BoolStr(Len(chs) > 0)

\* The calls of one ApplyPoolIntoRepo.
ApplyCalls(chs, outcomes, dry) ==
  LET non_applied == NonApplied(chs, outcomes, 1)
  IN ApplyLoop(chs, outcomes, 1)
     \o (IF non_applied # <<>>
         THEN HandleApplicationFailure(non_applied, dry)
         ELSE <<>>)

ApplyPoolIntoRepo ==
  /\ pc = "idle"
  /\ pool
  /\ \E outcomes \in [DOMAIN changes -> {"none", "ApplyPatchException"}] :
       LET non_applied == NonApplied(changes, outcomes, 1)
       IN /\ calls' = ApplyCalls(changes, outcomes, dryrun)
          /\ changes' \in ChangesAfterApply(changes, non_applied)
          /\ apply_failed' = apply_failed \cup Range(non_applied)
          /\ result' = ApplyResult(changes')
  /\ lastOp' = "ApplyPoolIntoRepo"
  /\ source_calls' = <<>>
  /\ warnings' = <<>>
  /\ tree_open' = "pending"
  /\ UNCHANGED <<processVars, pool, gerrit_helper, dryrun, pc, caller,
                 gateVars>>

----------------------------------------------------------------------------
\* ValidationPool.SubmitPool

\* One iteration of the for loop on the i-th change: the Submit call and,
\* when it raises RunCommandError, the HandleCouldNotSubmit call.
SubmitIteration(chs, outcomes, dry, i) ==
  IF outcomes[i] = "RunCommandError"
  THEN <<Call("Submit", chs[i], BoolStr(dry), "RunCommandError"),
         Call("HandleCouldNotSubmit", chs[i], BoolStr(dry), "none")>>
  ELSE <<Call("Submit", chs[i], BoolStr(dry), "none")>>

\* The for loop entered at the i-th change. The return statement at line
\* 183 belongs to the loop body, so the first iteration that runs ends the
\* method with True; a loop with nothing to iterate falls off the end of
\* the method, which then returns None.
SubmitLoop(chs, outcomes, dry, i) ==
  IF i > Len(chs)
  THEN [calls |-> <<>>, result |-> "None"]
  ELSE [calls |-> SubmitIteration(chs, outcomes, dry, i), result |-> "True"]

\* A SubmitPool that trusts the tree status seen at acquisition and submits
\* whatever the gate answers now.
SubmitPool_NoRecheck(gate, chs, outcomes, dry) ==
  IF gate \in {"True", "False"}
  THEN SubmitLoop(chs, outcomes, dry, 1)
  ELSE [calls |-> <<>>, result |-> gate]

\* What SubmitPool does once _IsTreeOpen has produced `gate`.
SubmitPool(gate, chs, outcomes, dry) ==
  IF gate = "True"
  THEN SubmitLoop(chs, outcomes, dry, 1)
  ELSE [calls |-> <<>>,
        result |-> IF gate = "False" THEN "TreeIsClosedException" ELSE gate]

SubmitPool_Call ==
  /\ pc = "idle"
  /\ pool
  /\ EnterIsTreeOpen("SubmitPool")
  /\ UNCHANGED <<processVars, poolVars>>

\* A SubmitPool that takes the changes it submitted out of the pool.
SubmitPool_Return_Consuming ==
  /\ pc = "returned"
  /\ caller = "SubmitPool"
  /\ \E outcomes \in [DOMAIN changes -> {"none", "RunCommandError"}] :
       LET r == SubmitPool(tree_open, changes, outcomes, dryrun)
           submitted ==
             {r.calls[i].change :
                i \in {j \in DOMAIN r.calls : r.calls[j].call = "Submit"
                                               /\ r.calls[j].raised = "none"}}
       IN /\ calls' = r.calls
          /\ result' = r.result
          /\ changes' = SelectSeq(changes, LAMBDA c : c \notin submitted)
  /\ LeaveIsTreeOpen
  /\ UNCHANGED <<processVars, pool, gerrit_helper, dryrun, apply_failed,
                 caller, tree_open, warnings, lastOp, source_calls>>

SubmitPool_Return ==
  /\ pc = "returned"
  /\ caller = "SubmitPool"
  /\ \E outcomes \in [DOMAIN changes -> {"none", "RunCommandError"}] :
       LET r == SubmitPool(tree_open, changes, outcomes, dryrun)
       IN /\ calls' = r.calls
          /\ result' = r.result
  /\ LeaveIsTreeOpen
  /\ UNCHANGED <<processVars, poolVars, caller, tree_open, warnings, lastOp,
                 source_calls>>

----------------------------------------------------------------------------
\* ValidationPool.HandleValidationFailure

\* A handler that skips the first change of the pool.
HandleValidationFailureCalls_SkipFirst(chs, dry) ==
  [i \in 1..(Len(chs) - 1) |->
     Call("HandleCouldNotVerify", chs[i + 1], BoolStr(dry), "none")]

HandleValidationFailureCalls(chs, dry) ==
  [i \in 1..Len(chs) |->
     Call("HandleCouldNotVerify", chs[i], BoolStr(dry), "none")]

HandleValidationFailure ==
  /\ pc = "idle"
  /\ pool
  /\ calls' = HandleValidationFailureCalls(changes, dryrun)
  /\ lastOp' = "HandleValidationFailure"
  /\ result' = "None"
  /\ source_calls' = <<>>
  /\ warnings' = <<>>
  /\ tree_open' = "pending"
  /\ UNCHANGED <<processVars, poolVars, pc, caller, gateVars>>

----------------------------------------------------------------------------

Init ==
  /\ GLOBAL_DRYRUN \in BOOLEAN
  /\ dryrun_passed = FALSE
  /\ pool = FALSE
  /\ changes = <<>>
  /\ gerrit_helper = "None"
  /\ dryrun = FALSE
  /\ pc = "idle"
  /\ caller = "none"
  /\ attempt = 0
  /\ current_sleep = initial_sleep
  /\ response_dict = "None"
  /\ responses = <<>>
  /\ sleeps = <<>>
  /\ tree_open = "pending"
  /\ warnings = <<>>
  /\ lastOp = "none"
  /\ result = "none"
  /\ calls = <<>>
  /\ source_calls = <<>>
  /\ apply_failed = {}

Next ==
  \/ AcquirePool_Call
  \/ AcquirePool_Return
  \/ AcquirePoolFromManifest
  \/ IsTreeOpen_Attempt
  \/ HandleApplicationFailure_Direct
  \/ ApplyPoolIntoRepo
  \/ SubmitPool_Call
  \/ SubmitPool_Return
  \/ HandleValidationFailure

Spec == Init /\ [][Next]_vars

----------------------------------------------------------------------------
\* Properties

\* The changes whose Apply raised ApplyPatchException in a call log.
ApplyFailedIn(log) ==
  {log[i].change :
     i \in {j \in DOMAIN log : log[j].call = "Apply"
                                /\ log[j].raised = "ApplyPatchException"}}

\* The changes whose Submit raised RunCommandError in a call log.
SubmitFailedIn(log) ==
  {log[i].change :
     i \in {j \in DOMAIN log : log[j].call = "Submit"
                                /\ log[j].raised = "RunCommandError"}}

\* SubmitPool has come back from a call in which the gate answered open.
SubmitPoolDoneOpen ==
  lastOp = "SubmitPool" /\ pc = "idle" /\ tree_open = "True"

\* AcquirePool has come back.
AcquirePoolDone == lastOp = "AcquirePool" /\ pc = "idle"

\* _IsTreeOpen has produced its outcome and its caller has not continued.
IsTreeOpenDone == pc = "returned"

\* C1: every ApplyPoolIntoRepo leaves in the pool exactly the changes it
\* had minus those whose Apply raised ApplyPatchException (each once), and
\* calls HandleCouldNotApply exactly once on each failed change and never on
\* a change that applied.
C1_ApplyIsolatesFailures ==
  [][lastOp' = "ApplyPoolIntoRepo" =>
       LET failed == ApplyFailedIn(calls')
       IN /\ Range(changes') = Range(changes) \ failed
          /\ Len(changes') = Cardinality(Range(changes'))
          /\ \A c \in Changes :
               Count(calls', "HandleCouldNotApply", c)
                 = IF c \in failed THEN 1 ELSE 0]_vars

\* C1 witness: an ApplyPoolIntoRepo in which some changes failed and others
\* applied.
C1_Witness ==
  /\ lastOp = "ApplyPoolIntoRepo"
  /\ ApplyFailedIn(calls) # {}
  /\ Len(changes) >= 2

\* C2 (as claimed): when SubmitPool has returned from a call with the tree
\* open, every change of the pool has had exactly one Submit call.
C2_SubmitAttemptsEveryChange ==
  SubmitPoolDoneOpen =>
    \A c \in Range(changes) : Count(calls, "Submit", c) = 1

\* C3: a SubmitPool whose gate answers closed raises TreeIsClosedException,
\* makes no Submit call and no handler call, and leaves the changes of the
\* pool as they were.
C3_SubmitClosedTree ==
  [][(pc = "returned" /\ caller = "SubmitPool" /\ tree_open = "False") =>
       /\ result' = "TreeIsClosedException"
       /\ calls' = <<>>
       /\ changes' = changes
       /\ pool' = pool]_vars

\* C3 witness: SubmitPool raised TreeIsClosedException on a pool that holds
\* changes (the pool was acquired while the gate answered open).
C3_Witness ==
  /\ lastOp = "SubmitPool"
  /\ pc = "idle"
  /\ result = "TreeIsClosedException"
  /\ pool
  /\ Len(changes) >= 2

\* C4: an AcquirePool whose gate answers closed raises
\* TreeIsClosedException, calls nothing on the gerrit helper and creates no
\* pool; one whose gate answers open returns a pool whose changes are the
\* list FilterProjectsNotInSourceTree returned for the list
\* GrabChangesReadyForCommit returned, with the gerrit helper bound.
C4_AcquireGated ==
  AcquirePoolDone =>
    /\ tree_open = "False" =>
         /\ result = "TreeIsClosedException"
         /\ source_calls = <<>>
         /\ ~pool
         /\ changes = <<>>
         /\ gerrit_helper = "None"
    /\ tree_open = "True" =>
         /\ result = "pool"
         /\ pool
         /\ gerrit_helper = "GerritHelper"
         /\ Len(source_calls) = 2
         /\ source_calls[1].call = "GrabChangesReadyForCommit"
         /\ source_calls[2].call = "FilterProjectsNotInSourceTree"
         /\ source_calls[2].arg = source_calls[1].returned
         /\ changes = source_calls[2].returned

\* C4 witness: AcquirePool came back from a closed tree.
C4_Witness ==
  /\ AcquirePoolDone
  /\ tree_open = "False"
  /\ result = "TreeIsClosedException"

\* C5: when every attempt of a gate call failed (IOError or a status other
\* than 200), the call returns True and has logged the could-not-get-status
\* warning.
C5_FailOpen ==
  (/\ IsTreeOpenDone
   /\ Len(responses) = max_attempts
   /\ \A i \in DOMAIN responses : responses[i] \in FailedResponses)
  => /\ tree_open = "True"
     /\ warnings = ExhaustedWarning

\* C5 witness: a gate call whose five attempts failed, with both kinds of
\* failure among them.
C5_Witness ==
  /\ IsTreeOpenDone
  /\ Len(responses) = 5
  /\ \A i \in DOMAIN responses : responses[i] \in FailedResponses
  /\ \E i, j \in DOMAIN responses :
       responses[i] = "IOError" /\ responses[j] = "non200"

\* C6: a gate call that receives a status-200 response carrying a
\* general_state ends with that response, which is the first of its kind,
\* and returns True exactly when the general_state is open or throttled and
\* False otherwise; while the call is still running no such response has
\* been received.
C6_FirstResponseDecides ==
  /\ pc = "IsTreeOpen" =>
       \A i \in DOMAIN responses : responses[i] \in FailedResponses
  /\ (IsTreeOpenDone /\ \E i \in DOMAIN responses : responses[i] \in TreeStates)
     => LET first == CHOOSE i \in DOMAIN responses :
                       /\ responses[i] \in TreeStates
                       /\ \A j \in 1..(i - 1) : responses[j] \notin TreeStates
        IN /\ first = Len(responses)
           /\ tree_open =
                (IF responses[first] \in {"open", "throttled"}
                 THEN "True" ELSE "False")

\* C6 witness: a gate call decided by a throttled answer after two failed
\* attempts.
C6_Witness ==
  /\ IsTreeOpenDone
  /\ Len(responses) = 3
  /\ responses[3] = "throttled"
  /\ tree_open = "True"

\* C7: a gate call makes at most 5 attempts, and its n-th sleep follows
\* its n-th failed attempt and lasts 2^(n-1) seconds.
C7_BoundedDoublingBackoff ==
  /\ Len(responses) <= 5
  /\ Len(sleeps) <= Len(responses)
  /\ \A n \in DOMAIN sleeps :
       /\ responses[n] \in FailedResponses
       /\ sleeps[n] = 1 * 2 ^ (n - 1)

\* C7 witness: a gate call that slept 1, 2, 4 and 8 seconds before a fifth
\* attempt that was answered.
C7_Witness ==
  /\ IsTreeOpenDone
  /\ sleeps = <<1, 2, 4, 8>>
  /\ Len(responses) = 5
  /\ responses[5] \in TreeStates

\* C8 (as claimed): a SubmitPool called with the tree open returns True,
\* whatever the pool holds.
C8_SubmitReturnsTrue ==
  SubmitPoolDoneOpen => result = "True"

\* C9 (as claimed): in a SubmitPool under an open tree, a change whose
\* Submit raised RunCommandError has one HandleCouldNotSubmit call and no
\* HandleCouldNotApply call, a change whose Submit succeeded has no
\* HandleCouldNotSubmit call, and every change that follows a failed one in
\* the pool is submitted.
C9_SubmitFailureIsPerChange ==
  SubmitPoolDoneOpen =>
    \A i \in DOMAIN changes :
      IF changes[i] \in SubmitFailedIn(calls)
      THEN /\ Count(calls, "HandleCouldNotSubmit", changes[i]) = 1
           /\ Count(calls, "HandleCouldNotApply", changes[i]) = 0
           /\ \A j \in (i + 1)..Len(changes) :
                Count(calls, "Submit", changes[j]) = 1
      ELSE Count(calls, "HandleCouldNotSubmit", changes[i]) = 0

\* C10: every HandleValidationFailure calls HandleCouldNotVerify exactly
\* once on each change the pool holds and on no other change, in particular
\* on none that an earlier apply failure removed.
C10_VerifyFailureNotifiesPool ==
  [][lastOp' = "HandleValidationFailure" =>
       \A c \in Changes :
         Count(calls', "HandleCouldNotVerify", c)
           = IF c \in Range(changes) THEN 1 ELSE 0]_vars

\* C10 witness: HandleValidationFailure ran on a pool of two changes from
\* which an apply failure had removed a third.
C10_Witness ==
  /\ lastOp = "HandleValidationFailure"
  /\ Len(changes) = 2
  /\ apply_failed # {}
  /\ Len(calls) = 2

\* The methods of a Change that take the dryrun keyword argument.
DryrunAware ==
  {"Submit", "HandleCouldNotApply", "HandleCouldNotSubmit",
   "HandleCouldNotVerify"}

\* C11: the dryrun attribute of a pool is the dryrun argument it was
\* acquired with or-ed with GLOBAL_DRYRUN, so it is set whenever
\* GLOBAL_DRYRUN is; and every Submit, HandleCouldNotApply,
\* HandleCouldNotSubmit and HandleCouldNotVerify call of the pool passes
\* that attribute as dryrun.
C11_EffectiveDryrun ==
  pool =>
    /\ dryrun = (dryrun_passed \/ GLOBAL_DRYRUN)
    /\ GLOBAL_DRYRUN => dryrun
    /\ \A i \in DOMAIN calls :
         calls[i].call \in DryrunAware =>
           calls[i].dryrun = (IF dryrun THEN "True" ELSE "False")

\* C11 witness: a pool acquired with dryrun False under GLOBAL_DRYRUN whose
\* Submit of a change failed: both calls carried dryrun True.
C11_Witness ==
  /\ pool
  /\ GLOBAL_DRYRUN
  /\ ~dryrun_passed
  /\ \E i, j \in DOMAIN calls :
       /\ calls[i].call = "Submit"
       /\ calls[i].dryrun = "True"
       /\ calls[j].call = "HandleCouldNotSubmit"
       /\ calls[j].dryrun = "True"

\* C12 (as claimed): AcquirePoolFromManifest returns a pool with the gerrit
\* helper bound whose changes are the patches GrabPatchFromGerrit returned
\* for the commits of the manifest, one call per commit, in manifest
\* order; it does so without calling _IsTreeOpen.
C12_ManifestAcquisition ==
  lastOp = "AcquirePoolFromManifest" =>
    /\ result = "pool"
    /\ pool
    /\ gerrit_helper = "GerritHelper"
    /\ Len(source_calls) = Len(changes)
    /\ \A i \in DOMAIN changes :
         /\ source_calls[i].call = "GrabPatchFromGerrit"
         /\ source_calls[i].returned = <<changes[i]>>
    /\ pc = "idle"
    /\ tree_open = "pending"

\* Status-200 responses whose body cannot be decoded or lacks general_state.
MalformedResponses == {"malformed", "nokey"}

\* C13 (as claimed): a malformed status-200 response is handled like a
\* failed attempt: a sleep follows it, the gate call ends on it only when
\* it was the last attempt allowed, and then with the verdict open; no
\* ValueError or KeyError comes out of the gate call or of the AcquirePool
\* or SubmitPool that made it.
C13_MalformedIsTransient ==
  /\ tree_open \notin {"ValueError", "KeyError"}
  /\ result \notin {"ValueError", "KeyError"}
  /\ \A n \in DOMAIN responses :
       responses[n] \in MalformedResponses =>
         /\ Len(sleeps) >= n
         /\ (pc = "returned" /\ n = Len(responses)) =>
              (n = max_attempts /\ tree_open = "True")

\* C14: every ApplyPoolIntoRepo calls Apply exactly once on each change the
\* pool held on entry, whatever the earlier Apply calls did, and on no other
\* change; and every HandleCouldNotApply call comes after the last Apply
\* call.
C14_EveryChangeApplied ==
  [][lastOp' = "ApplyPoolIntoRepo" =>
       /\ \A c \in Changes :
            Count(calls', "Apply", c) = IF c \in Range(changes) THEN 1 ELSE 0
       /\ \A i, j \in DOMAIN calls' :
            (calls'[i].call = "HandleCouldNotApply" /\ calls'[j].call = "Apply")
              => j < i]_vars

\* C14 witness: an ApplyPoolIntoRepo whose first Apply failed and which
\* went on to apply one change and fail on another.
C14_Witness ==
  /\ lastOp = "ApplyPoolIntoRepo"
  /\ Len(calls) >= 1
  /\ calls[1].call = "Apply"
  /\ calls[1].raised = "ApplyPatchException"
  /\ \E i, j \in 2..Len(calls) :
       /\ calls[i].call = "Apply" /\ calls[i].raised = "none"
       /\ calls[j].call = "Apply" /\ calls[j].raised = "ApplyPatchException"

\* C15 (as claimed): a gate call that got its status-200 response carrying
\* a general_state on the n-th attempt has logged one warning saying that n
\* attempts were needed when n > 1, and no warning when n = 1.
C15_WarnsAfterRetries ==
  (/\ IsTreeOpenDone
   /\ responses # <<>>
   /\ responses[Len(responses)] \in TreeStates)
  => warnings =
       (IF Len(responses) > 1
        THEN <<[msg |-> "Had to attempt to reach", times |-> Len(responses)]>>
        ELSE <<>>)

\* C16: a change that an apply failure removed from the pool is in the pool
\* no more, and no later ApplyPoolIntoRepo, SubmitPool or
\* HandleValidationFailure of the pool makes any call on it.
C16_RemovedNeverRetried ==
  [][/\ Range(changes') \cap apply_failed' = {}
     /\ lastOp' \in {"ApplyPoolIntoRepo", "SubmitPool",
                     "HandleValidationFailure"} =>
          \A i \in DOMAIN calls' : calls'[i].change \notin apply_failed]_vars

\* C16 witness: a SubmitPool that submitted a change of a pool from which
\* an apply failure had removed another.
C16_Witness ==
  /\ lastOp = "SubmitPool"
  /\ apply_failed # {}
  /\ \E i \in DOMAIN calls : calls[i].call = "Submit"

\* The changes whose Apply succeeded in a call log.
AppliedIn(log) ==
  {log[i].change :
     i \in {j \in DOMAIN log : log[j].call = "Apply"
                                /\ log[j].raised = "none"}}

\* C17: ApplyPoolIntoRepo returns True when the pool holds a change after
\* the failed ones were removed, which is when some Apply succeeded, and
\* False otherwise: when every Apply failed and when there was no change to
\* apply.
C17_ApplyReturnValue ==
  lastOp = "ApplyPoolIntoRepo" =>
    /\ result \in {"True", "False"}
    /\ result = "True" <=> Len(changes) > 0
    /\ result = "True" <=> AppliedIn(calls) # {}
    /\ calls = <<>> => result = "False"

\* C17 witness: an ApplyPoolIntoRepo that returned False because each of
\* the two or more changes of the pool failed to apply.
C17_Witness ==
  /\ lastOp = "ApplyPoolIntoRepo"
  /\ result = "False"
  /\ Cardinality(ApplyFailedIn(calls)) >= 2

\* C18: SubmitPool (returning or raising), HandleApplicationFailure and
\* HandleValidationFailure leave the changes, the dryrun attribute and the
\* gerrit helper of the pool as they were; ApplyPoolIntoRepo leaves the
\* dryrun attribute and the gerrit helper as they were, and the changes too
\* when no Apply failed.
C18_OnlyApplyMutatesChanges ==
  [][/\ lastOp' \in {"SubmitPool", "HandleApplicationFailure",
                     "HandleValidationFailure"} =>
          /\ changes' = changes
          /\ dryrun' = dryrun
          /\ gerrit_helper' = gerrit_helper
          /\ pool' = pool
     /\ lastOp' = "ApplyPoolIntoRepo" =>
          /\ dryrun' = dryrun
          /\ gerrit_helper' = gerrit_helper
          /\ pool' = pool
          /\ ApplyFailedIn(calls') = {} => changes' = changes]_vars

\* C18 witness: a SubmitPool that returned True after a successful Submit
\* and left a pool of two or more changes.
C18_Witness ==
  /\ lastOp = "SubmitPool"
  /\ pc = "idle"
  /\ result = "True"
  /\ \E i \in DOMAIN calls :
       calls[i].call = "Submit" /\ calls[i].raised = "none"
  /\ Len(changes) >= 2

\* C19 (as claimed): after every ApplyPoolIntoRepo the changes left in the
\* pool are in the relative order they had before the call.
C19_ApplyKeepsOrder ==
  [][lastOp' = "ApplyPoolIntoRepo" =>
       changes' = SelectSeq(changes, LAMBDA c : c \in Range(changes'))]_vars

\* The number of failed attempts among the responses of a gate call.
FailedAttempts == Cardinality({i \in DOMAIN responses :
                                 responses[i] \in FailedResponses})

\* C20: in a gate call there are as many sleeps as failed attempts, at most
\* 5 of each, and the call has returned once 5 attempts were made; when all
\* five attempts failed the sleeps were 1, 2, 4, 8 and 16 seconds, the last
\* one after the fifth failure; when the first attempt was answered there
\* was no sleep.
C20_SleepPerFailedAttempt ==
  /\ Len(sleeps) = FailedAttempts
  /\ Len(responses) <= 5
  /\ Len(sleeps) <= 5
  /\ Len(responses) = 5 => pc # "IsTreeOpen"
  /\ FailedAttempts = 5 => sleeps = <<1, 2, 4, 8, 16>>
  /\ (responses # <<>> /\ responses[1] \notin FailedResponses) => sleeps = <<>>

\* C20 witness: a gate call that has returned its fail-open verdict after
\* five failed attempts and five sleeps.
C20_Witness ==
  /\ IsTreeOpenDone
  /\ FailedAttempts = 5
  /\ Len(sleeps) = 5
  /\ sleeps[5] = 16
  /\ tree_open = "True"

====
